---- MODULE Spec2Model ----
(***************************************************************************)
(* A model of helga-codereview (src/helga_rbreview.py): the chat command   *)
(* that lints the latest diff of Review Board review requests with flake8  *)
(* and writes the result back as a review.                                 *)
(*                                                                         *)
(* Text is modelled as sequences of one-character strings, so that the     *)
(* parsing the code does (partition, split, int, splitext, lower) is       *)
(* computed and not assumed.                                               *)
(***************************************************************************)
EXTENDS Integers, Sequences, FiniteSets, TLC

VARIABLES
    settings,        \* helga settings: CODEREVIEW_COMMENT_LIMIT, CODEREVIEW_OPEN_ISSUE_CODES
    message,         \* the args of the !review command not yet handled
    reply,           \* how the codereview handler ended
    scheduled,       \* the calls handed to reactor.callLater
    chat,            \* the messages sent with client.msg, in order
    pc,              \* where the program is
    api_root,        \* process_review_requests: what api.get_root() gave
    review_ids,      \* process_review_requests: its list of ids
    idx,             \* process_review_requests: position of the for loop
    errors,          \* process_review_requests: ids whose do_review raised
    calls,           \* the do_review calls made, each with how it ended
    diffs,           \* do_review: what get_diffs() gave, until the files are listed
    diff,            \* do_review: the diff revision it selected
    files,           \* do_review: files of the diff still to visit
    comments,        \* do_review: findings collected, then sliced
    total_comments,  \* do_review: len(comments) before the slice
    posted,          \* do_review: comments created so far in the loop
    reviews,         \* the reviews the running do_review call created on the server
    analysis,        \* the last _flake8 call of the running do_review call
    analyzed_ok,     \* a _flake8 call of the running do_review call has returned
    call_arg,        \* function-level specifications: the argument
    call_ret,        \* function-level specifications: the result
    call_done,       \* function-level specifications: the call was made
    fpc,             \* the steps of one _flake8 call: where the call is
    tmpfiles         \* the steps of one _flake8 call: temporary files that exist

handlervars == <<message, reply, scheduled>>
batchvars == <<api_root, review_ids, idx, errors, calls>>
reviewvars == <<diffs, diff, files, comments, total_comments, posted, reviews,
                analysis, analyzed_ok>>
fnvars == <<call_arg, call_ret, call_done, fpc, tmpfiles>>
mainvars == <<settings, handlervars, chat, pc, batchvars, reviewvars>>
vars == <<mainvars, fnvars>>

(***************************************************************************)
(* Python text primitives.                                                 *)
(***************************************************************************)

\* str.find(ch): the 1-based index of the first ch in s, 0 when there is none
RECURSIVE FindFrom(_, _, _)
FindFrom(s, ch, i) ==
    IF i > Len(s) THEN 0
    ELSE IF s[i] = ch THEN i
    ELSE FindFrom(s, ch, i + 1)

Find(s, ch) == FindFrom(s, ch, 1)

\* str.rfind(ch): the 1-based index of the last ch in s, 0 when there is none
RECURSIVE RFindFrom(_, _, _)
RFindFrom(s, ch, i) ==
    IF i < 1 THEN 0
    ELSE IF s[i] = ch THEN i
    ELSE RFindFrom(s, ch, i - 1)

RFind(s, ch) == RFindFrom(s, ch, Len(s))

\* str.partition(ch): <<head, separator found, tail>>
Partition(s, ch) ==
    LET k == Find(s, ch)
    IN  IF k = 0 THEN <<s, <<>>, <<>>>>
        ELSE <<SubSeq(s, 1, k - 1), <<ch>>, SubSeq(s, k + 1, Len(s))>>

\* str.split(ch): always at least one field
RECURSIVE Split(_, _)
Split(s, ch) ==
    LET k == Find(s, ch)
    IN  IF k = 0 THEN <<s>>
        ELSE <<SubSeq(s, 1, k - 1)>> \o Split(SubSeq(s, k + 1, Len(s)), ch)

\* str.splitlines(): no last empty line after a final line break
RECURSIVE SplitLines(_)
SplitLines(s) ==
    IF s = <<>> THEN <<>>
    ELSE LET k == Find(s, "\n")
         IN  IF k = 0 THEN <<s>>
             ELSE <<SubSeq(s, 1, k - 1)>> \o SplitLines(SubSeq(s, k + 1, Len(s)))

DigitChars == {"0", "1", "2", "3", "4", "5", "6", "7", "8", "9"}

DigitVal(c) ==
    CASE c = "0" -> 0 [] c = "1" -> 1 [] c = "2" -> 2 [] c = "3" -> 3
      [] c = "4" -> 4 [] c = "5" -> 5 [] c = "6" -> 6 [] c = "7" -> 7
      [] c = "8" -> 8 [] c = "9" -> 9

\* int(s) returns (does not raise ValueError); the texts of the model hold no
\* sign and no blank inside a location field
IntOk(s) == Len(s) > 0 /\ \A i \in 1..Len(s) : s[i] \in DigitChars

RECURSIVE IntOf(_)
IntOf(s) ==
    IF Len(s) = 0 THEN 0
    ELSE IntOf(SubSeq(s, 1, Len(s) - 1)) * 10 + DigitVal(s[Len(s)])

\* str.lower() on the letters of the model's alphabet
LowerChar(c) ==
    CASE c = "P" -> "p" [] c = "Y" -> "y" [] c = "F" -> "f" [] c = "C" -> "c"
      [] OTHER -> c

Lower(s) == [i \in 1..Len(s) |-> LowerChar(s[i])]

(***************************************************************************)
(* _is_python: the file selector.                                          *)
(***************************************************************************)

\* os.path.splitext(p)[-1]: the extension starts at the last dot, if that dot
\* comes after the last "/" and some character between them is not a dot
SplitExt(p) ==
    LET sepIndex == RFind(p, "/")
        dotIndex == RFind(p, ".")
    IN  IF /\ dotIndex > sepIndex
           /\ \E k \in (sepIndex + 1)..(dotIndex - 1) : p[k] # "."
        THEN SubSeq(p, dotIndex, Len(p))
        ELSE <<>>

\* A file record of the review server: kind "str" carries a destination path,
\* "missing" has no dest_file attribute, "none" has dest_file = None
DiffFile(kind, path) == [kind |-> kind, dest_file |-> path]

\* _is_python comparing the extension without lower()
IsPythonCaseSensitive(diff_file) ==
    IF diff_file.kind # "str"
    THEN [raised |-> FALSE, value |-> FALSE]
    ELSE [raised |-> FALSE,
          value |-> SplitExt(diff_file.dest_file) = <<".", "p", "y">>]

\* _is_python: the try covers the attribute access and splitext, any exception
\* there gives False; ext.lower() == '.py' runs outside it on a string
IsPython(diff_file) ==
    IF diff_file.kind # "str"
    THEN [raised |-> FALSE, value |-> FALSE]
    ELSE [raised |-> FALSE,
          value |-> Lower(SplitExt(diff_file.dest_file)) = <<".", "p", "y">>]

(***************************************************************************)
(* _flake8: the analyzer runner and its line mapper.                       *)
(***************************************************************************)

\* A row of the diff data: row[4] is the line number in the patched file,
\* row[0] the row's own number in the diff
Row(r0, r4) == (0 :> r0) @@ (4 :> r4)

Chunk(rows) == [lines |-> rows]

\* for row in chunk.lines: if row[4] == lineno: the index of the first such row
RECURSIVE FirstMatch(_, _, _)
FirstMatch(rows, lineno, i) ==
    IF i > Len(rows) THEN 0
    ELSE IF rows[i][4] = lineno THEN i
    ELSE FirstMatch(rows, lineno, i + 1)

\* for chunk in diff_data.chunks: for row in chunk.lines: the break leaves the
\* inner loop only, so the next chunk is searched for the line just assigned
RECURSIVE NormalizeLine(_, _)
NormalizeLine(chunks, lineno) ==
    IF chunks = <<>> THEN lineno
    ELSE LET k == FirstMatch(Head(chunks).lines, lineno, 1)
         IN  NormalizeLine(Tail(chunks),
                           IF k = 0 THEN lineno ELSE Head(chunks).lines[k][0])

\* One entry of _flake8's errors list; text is 'Column {colno}: {msg}'
Finding(file, lineno, colno, msg, opened) ==
    [filediff_id |-> file.id,
     first_line |-> lineno,
     num_lines |-> 1,
     text |-> <<"Column", colno, msg>>,
     issue_opened |-> opened]

Raised(exc) == [raised |-> TRUE, exc |-> exc, errors |-> <<>>]

Returned(errs) == [raised |-> FALSE, exc |-> "", errors |-> errs]

\* The strict-code set taken as a switch: any code opens an issue once it is set
IssueOpenedIfAnyStrict(code, strict_codes) == strict_codes # {}

\* 'issue_opened': code in strict_codes
IssueOpened(code, strict_codes) == code \in strict_codes

\* The loop over stdout.splitlines(): only ValueError is caught, so a location
\* with too few fields raises IndexError out of _flake8
RECURSIVE ParseOutput(_, _, _, _)
ParseOutput(lines, file, strict_codes, errs) ==
    IF lines = <<>> THEN Returned(errs)
    ELSE LET line == Head(lines)
             location == Partition(line, " ")[1]
             msg == Partition(line, " ")[3]
             code == Partition(msg, " ")[1]
             info == Split(location, ":")
         IN  IF Len(info) < 2 THEN Raised("IndexError")
             ELSE IF ~IntOk(info[2])
                  THEN ParseOutput(Tail(lines), file, strict_codes, errs)
             ELSE IF Len(info) < 3 THEN Raised("IndexError")
             ELSE IF ~IntOk(info[3])
                  THEN ParseOutput(Tail(lines), file, strict_codes, errs)
             ELSE ParseOutput(Tail(lines), file, strict_codes,
                      Append(errs,
                             Finding(file,
                                     NormalizeLine(file.chunks, IntOf(info[2])),
                                     IntOf(info[3]),
                                     msg,
                                     IssueOpened(code, strict_codes))))

\* _flake8(file): reading the diff data or the patched file, or starting the
\* analyzer, may fail (file.io_ok); otherwise the analyzer's output is parsed
Flake8(file, strict_codes) ==
    IF ~file.io_ok THEN Raised("IOError")
    ELSE ParseOutput(SplitLines(file.stdout), file, strict_codes, <<>>)

(***************************************************************************)
(* Bounds, settings and what the chat user and the review server supply.   *)
(***************************************************************************)

MaxArgs == 2        \* words in one !review command
MaxCap == 2         \* largest CODEREVIEW_COMMENT_LIMIT tried
MaxFiles == 2       \* files in one diff
MaxRevision == 2    \* diff revisions of one review request

SeqsUpTo(S, n) == UNION {[1..k -> S] : k \in 0..n}

Min(a, b) == IF a < b THEN a ELSE b

Max(a, b) == IF a > b THEN a ELSE b

\* getattr(settings, 'CODEREVIEW_COMMENT_LIMIT', ...) and
\* getattr(settings, 'CODEREVIEW_OPEN_ISSUE_CODES', [])
Settings(limit_set, limit, codes) ==
    [limit_set |-> limit_set, limit |-> limit, strict_codes |-> codes]

DefaultSettings == Settings(FALSE, 0, {})

CodeE == <<"E", "1">>

CodeW == <<"W", "2">>

SettingsSet ==
    {Settings(FALSE, 0, {CodeE})}
    \cup {Settings(TRUE, n, {CodeE}) : n \in (-1)..MaxCap}

\* One word of the command text, as the pattern (https?://host/r/|cr)(\d+),
\* compiled with re.I, sees it: what precedes the digits, and the digits
Arg(prefix, digits) == [prefix |-> prefix, digits |-> digits]

MessageArgs ==
    {Arg("cr", <<"1">>), Arg("CR", <<"2">>), Arg("https://host/r/", <<"1">>),
     Arg("cr", <<>>), Arg("", <<"2">>)}

\* The first group of _cr_pat matches this prefix
PrefixMatches(prefix) ==
    prefix \in {"cr", "CR", "cR", "Cr", "http://host/r/", "https://host/r/"}

\* map(lambda x: int(x[1]), _cr_pat.findall(arglist))
RECURSIVE Matches(_)
Matches(args) ==
    IF args = <<>> THEN <<>>
    ELSE LET a == Head(args)
         IN  IF PrefixMatches(a.prefix) /\ IntOk(a.digits)
             THEN <<IntOf(a.digits)>> \o Matches(Tail(args))
             ELSE Matches(Tail(args))

\* A client.msg text: which message it is and the ids it names
Msg(kind, ids) == [kind |-> kind, ids |-> ids]

\* ', '.join(map(lambda id: 'cr{0}'.format(id), errors))
CrList(ids) == [k \in 1..Len(ids) |-> <<"cr", ids[k]>>]

\* review_request.get_diffs(): the revisions in the order the server lists them
DiffLists ==
    {[k \in 1..Len(rs) |-> [revision |-> rs[k]]] :
        rs \in {q \in SeqsUpTo(1..MaxRevision, MaxRevision) :
                   \A a, b \in 1..Len(q) : a # b => q[a] # q[b]}}

\* sorted(diffs, key=attrgetter('revision')): ascending and stable
RECURSIVE InsertByRevision(_, _)
InsertByRevision(d, sorted) ==
    IF sorted = <<>> THEN <<d>>
    ELSE IF sorted[Len(sorted)].revision <= d.revision THEN Append(sorted, d)
    ELSE Append(InsertByRevision(d, SubSeq(sorted, 1, Len(sorted) - 1)),
                sorted[Len(sorted)])

\* The list of diffs taken as the server returned it, without sorting
SortedAsListed(ds) == ds

RECURSIVE SortedByRevision(_)
SortedByRevision(ds) ==
    IF ds = <<>> THEN <<>>
    ELSE InsertByRevision(ds[Len(ds)], SortedByRevision(SubSeq(ds, 1, Len(ds) - 1)))

NoDiff == [revision |-> 0]

PyPath == <<"f", ".", "p", "y">>

PycPath == <<"f", ".", "p", "y", "c">>

\* diff.get_files(): the kinds of file record a diff of the model lists
MainFileKinds == {DiffFile("str", PyPath), DiffFile("str", PycPath), DiffFile("missing", <<>>)}

FileLists(d) ==
    {[k \in 1..Len(fs) |->
        [id |-> [revision |-> d.revision, index |-> k],
         kind |-> fs[k].kind, dest_file |-> fs[k].dest_file]] :
     fs \in SeqsUpTo(MainFileKinds, MaxFiles)}

\* flake8's output format: path:row:col: CODE text, one diagnostic per line
DiagLine(row, col, msg) ==
    <<"f", ":">> \o row \o <<":">> \o col \o <<":", " ">> \o msg \o <<"\n">>

MsgE == CodeE \o <<" ", "m">>

MsgW == CodeW \o <<" ", "m">>

\* What flake8 prints for a file of the batch model: nothing, one or two
\* diagnostics, or a line that is no diagnostic
MainStdouts ==
    {<<>>,
     DiagLine(<<"1">>, <<"3">>, MsgE),
     DiagLine(<<"1">>, <<"3">>, MsgE) \o DiagLine(<<"2">>, <<"1">>, MsgW),
     <<"f", "\n">>}

MainChunks == <<Chunk(<<Row(2, 1)>>)>>

\* The file as _flake8 sees it: its diff data, and how the analyzer run goes
Analyzed(f, io_ok, stdout, chunks) ==
    [id |-> f.id, kind |-> f.kind, dest_file |-> f.dest_file,
     io_ok |-> io_ok, stdout |-> stdout, chunks |-> chunks]

\* What one _flake8 call of do_review's loop did: the file, and the list it
\* returned or that it raised
FileAnalysis(f, r) ==
    [called |-> TRUE, id |-> f.id, raised |-> r.raised, errors |-> r.errors]

NoAnalysis ==
    [called |-> FALSE, id |-> [revision |-> 0, index |-> 0], raised |-> FALSE,
     errors |-> <<>>]

\* The slice taken from the end of the list: comments[-limit:]
SliceCommentsTail(cs, st) ==
    IF ~st.limit_set THEN cs
    ELSE IF st.limit >= 0
         THEN SubSeq(cs, Len(cs) - Min(st.limit, Len(cs)) + 1, Len(cs))
    ELSE SubSeq(cs, Min(1 - st.limit, Len(cs) + 1), Len(cs))

\* comments[:getattr(settings, 'CODEREVIEW_COMMENT_LIMIT', len(comments))]
SliceComments(cs, st) ==
    IF ~st.limit_set THEN cs
    ELSE IF st.limit >= 0 THEN SubSeq(cs, 1, Min(st.limit, Len(cs)))
    ELSE SubSeq(cs, 1, Max(Len(cs) + st.limit, 0))

\* The body_top of a review: 'This code has [not] passed flake8 checks. ...'
BodyTop(passed, extra, shown) == [passed |-> passed, extra |-> extra, shown |-> shown]

\* A review on the server
Review(body_top, public, ship_it) ==
    [body_top |-> body_top, public |-> public, ship_it |-> ship_it, comments |-> <<>>]

\* The 'passed' review created without public=True: it stays a draft
PassedReviewDraft == Review(BodyTop(TRUE, "", 0), FALSE, FALSE)

\* create(body_top='This code has passed flake8 checks. :)', public=True, ship_it=False)
PassedReview == Review(BodyTop(TRUE, "", 0), TRUE, FALSE)

\* The 'not passed' review created with public=True, as the 'passed' one is
FlaggedReviewPublic(cs, total) ==
    Review(IF Len(cs) < total
           THEN BodyTop(FALSE, "Showing first", Len(cs))
           ELSE BodyTop(FALSE, "See below", 0),
           TRUE, FALSE)

\* create(body_top='This code has not passed flake8 checks. {0}'.format(extra))
FlaggedReview(cs, total) ==
    Review(IF Len(cs) < total
           THEN BodyTop(FALSE, "Showing first", Len(cs))
           ELSE BodyTop(FALSE, "See below", 0),
           FALSE, FALSE)

(***************************************************************************)
(* The batch: codereview, process_review_requests and do_review.           *)
(***************************************************************************)

\* No _flake8 call is followed step by step
Flake8Off ==
    /\ fpc = "off"
    /\ tmpfiles = 0

FnIdle ==
    /\ call_arg = <<>>
    /\ call_ret = <<>>
    /\ call_done = FALSE
    /\ Flake8Off

Init ==
    /\ settings \in SettingsSet
    /\ message \in SeqsUpTo(MessageArgs, MaxArgs)
    /\ reply = ""
    /\ scheduled = <<>>
    /\ chat = <<>>
    /\ pc = "idle"
    /\ api_root = "none"
    /\ review_ids = <<>>
    /\ idx = 0
    /\ errors = <<>>
    /\ calls = <<>>
    /\ diffs = <<>>
    /\ diff = NoDiff
    /\ files = <<>>
    /\ comments = <<>>
    /\ total_comments = 0
    /\ posted = 0
    /\ reviews = <<>>
    /\ analysis = NoAnalysis
    /\ analyzed_ok = FALSE
    /\ FnIdle

\* codereview scheduling the first extracted id only
CodereviewFirstIdOnly ==
    /\ pc = "idle"
    /\ LET matches == Matches(message)
       IN  IF matches = <<>>
           THEN /\ reply' = "You must tell me the reivew"
                /\ pc' = "done"
                /\ UNCHANGED <<chat, scheduled>>
           ELSE /\ chat' = Append(chat, Msg("Ok, I'll get right on that", <<>>))
                /\ scheduled' = Append(scheduled, <<matches[1]>>)
                /\ reply' = "ResponseNotReady"
                /\ pc' = "scheduled"
    /\ message' = <<>>
    /\ UNCHANGED <<settings, batchvars, reviewvars, fnvars>>

\* codereview without the test of line 43: it acknowledges and schedules
\* whatever was extracted, also nothing
CodereviewWithoutCheck ==
    /\ pc = "idle"
    /\ chat' = Append(chat, Msg("Ok, I'll get right on that", <<>>))
    /\ scheduled' = Append(scheduled, Matches(message))
    /\ reply' = "ResponseNotReady"
    /\ pc' = "scheduled"
    /\ message' = <<>>
    /\ UNCHANGED <<settings, batchvars, reviewvars, fnvars>>

\* codereview(client, channel, nick, message, cmd, args). \d+ always converts,
\* so the except branch of the int() calls is never taken
Codereview ==
    /\ pc = "idle"
    /\ LET matches == Matches(message)
       IN  IF matches = <<>>
           THEN /\ reply' = "You must tell me the reivew"
                /\ pc' = "done"
                /\ UNCHANGED <<chat, scheduled>>
           ELSE /\ chat' = Append(chat, Msg("Ok, I'll get right on that", <<>>))
                /\ scheduled' = Append(scheduled, matches)
                /\ reply' = "ResponseNotReady"
                /\ pc' = "scheduled"
    /\ message' = <<>>
    /\ UNCHANGED <<settings, batchvars, reviewvars, fnvars>>

\* process_review_requests without the return of its except branch: after
\* the "can't access" message the loop over the ids runs all the same
GetRootNoReturn ==
    /\ pc = "scheduled"
    /\ scheduled # <<>>
    /\ review_ids' = Head(scheduled)
    /\ scheduled' = Tail(scheduled)
    /\ \/ /\ api_root' = "ok"
          /\ UNCHANGED chat
       \/ /\ api_root' = "raised"
          /\ chat' = Append(chat, Msg("I can't access reviewboard", <<>>))
    /\ pc' = "loop"
    /\ idx' = 1
    /\ errors' = <<>>
    /\ UNCHANGED <<settings, message, reply, calls, reviewvars, fnvars>>

\* The reactor runs process_review_requests: api.get_root() returns or raises
GetRoot ==
    /\ pc = "scheduled"
    /\ scheduled # <<>>
    /\ review_ids' = Head(scheduled)
    /\ scheduled' = Tail(scheduled)
    /\ \/ /\ api_root' = "ok"
          /\ pc' = "loop"
          /\ idx' = 1
          /\ errors' = <<>>
          /\ UNCHANGED chat
       \/ /\ api_root' = "raised"
          /\ chat' = Append(chat, Msg("I can't access reviewboard", <<>>))
          /\ pc' = "done"
          /\ UNCHANGED <<idx, errors>>
    /\ UNCHANGED <<settings, message, reply, calls, reviewvars, fnvars>>

\* for review_id in review_ids: do_review(...) is entered
StartReview ==
    /\ pc = "loop"
    /\ idx <= Len(review_ids)
    /\ calls' = Append(calls, [review_id |-> review_ids[idx], outcome |-> "running"])
    /\ diffs' = <<>>
    /\ diff' = NoDiff
    /\ files' = <<>>
    /\ comments' = <<>>
    /\ total_comments' = 0
    /\ posted' = 0
    /\ reviews' = <<>>
    /\ analysis' = NoAnalysis
    /\ analyzed_ok' = FALSE
    /\ pc' = "resolve"
    /\ UNCHANGED <<settings, handlervars, chat, api_root, review_ids, idx, errors, fnvars>>

\* review_request = api_root.get_review_request(...); review_request.get_diffs():
\* either call to the server may raise
Resolve ==
    /\ pc = "resolve"
    /\ \/ /\ pc' = "except"
          /\ UNCHANGED diffs
       \/ /\ diffs' \in DiffLists
          /\ pc' = "select"
    /\ UNCHANGED <<settings, handlervars, chat, batchvars, diff, files, comments,
                   total_comments, posted, reviews, analysis, analyzed_ok, fnvars>>

\* diff = sorted(diffs, key=attrgetter('revision'))[-1]: [-1] of no diffs
\* raises IndexError
SelectDiff ==
    /\ pc = "select"
    /\ IF diffs = <<>>
       THEN /\ pc' = "except"
            /\ UNCHANGED diff
       ELSE /\ diff' = SortedByRevision(diffs)[Len(diffs)]
            /\ pc' = "files"
    /\ UNCHANGED <<settings, handlervars, chat, batchvars, diffs, files, comments,
                   total_comments, posted, reviews, analysis, analyzed_ok, fnvars>>

\* diff.get_files(): the files of the selected diff, or the call raises; the
\* list of diffs is not looked at again
GetFiles ==
    /\ pc = "files"
    /\ \/ /\ pc' = "except"
          /\ UNCHANGED files
       \/ /\ files' \in FileLists(diff)
          /\ pc' = "analyze"
    /\ diffs' = <<>>
    /\ UNCHANGED <<settings, handlervars, chat, batchvars, diff, comments,
                   total_comments, posted, reviews, analysis, analyzed_ok, fnvars>>

\* The loop over the files without its try: an exception of _flake8 leaves
\* do_review
AnalyzeFileUnguarded ==
    /\ pc = "analyze"
    /\ files # <<>>
    /\ files' = Tail(files)
    /\ IF ~IsPython(Head(files)).value
       THEN UNCHANGED <<comments, analysis, analyzed_ok, pc>>
       ELSE \E io_ok \in BOOLEAN, stdout \in MainStdouts :
              LET r == Flake8(Analyzed(Head(files), io_ok, stdout, MainChunks),
                              settings.strict_codes)
              IN  /\ comments' = IF r.raised THEN comments ELSE comments \o r.errors
                  /\ analysis' = FileAnalysis(Head(files), r)
                  /\ analyzed_ok' = (analyzed_ok \/ ~r.raised)
                  /\ pc' = IF r.raised THEN "except" ELSE pc
    /\ UNCHANGED <<settings, handlervars, chat, batchvars, diffs, diff,
                   total_comments, posted, reviews, fnvars>>

\* for file in ifilter(_is_python, diff.get_files()): comments.extend(_flake8(file)),
\* an exception of _flake8 is logged and the loop goes on
AnalyzeFile ==
    /\ pc = "analyze"
    /\ files # <<>>
    /\ files' = Tail(files)
    /\ IF ~IsPython(Head(files)).value
       THEN UNCHANGED <<comments, analysis, analyzed_ok>>
       ELSE \E io_ok \in BOOLEAN, stdout \in MainStdouts :
              LET r == Flake8(Analyzed(Head(files), io_ok, stdout, MainChunks),
                              settings.strict_codes)
              IN  /\ comments' = IF r.raised THEN comments ELSE comments \o r.errors
                  /\ analysis' = FileAnalysis(Head(files), r)
                  /\ analyzed_ok' = (analyzed_ok \/ ~r.raised)
    /\ UNCHANGED <<settings, handlervars, chat, pc, batchvars, diffs, diff,
                   total_comments, posted, reviews, fnvars>>

\* The slice, then the decision: no comment left gives the 'passed' review
\* and the return, otherwise the draft review is created
Decide ==
    /\ pc = "analyze"
    /\ files = <<>>
    /\ total_comments' = Len(comments)
    /\ comments' = SliceComments(comments, settings)
    /\ \/ /\ pc' = "except"
          /\ UNCHANGED reviews
       \/ IF comments' = <<>>
          THEN /\ reviews' = Append(reviews, PassedReview)
               /\ pc' = "return"
          ELSE /\ reviews' = Append(reviews, FlaggedReview(comments', total_comments'))
               /\ pc' = "post"
    /\ UNCHANGED <<settings, handlervars, chat, batchvars, diffs, diff, files, posted,
                   analysis, analyzed_ok, fnvars>>

\* The comment loop with a failed create caught: the review is published with
\* the comments attached so far
PostCommentFailurePublishes ==
    /\ pc = "post"
    /\ posted < Len(comments)
    /\ \/ /\ reviews' = [reviews EXCEPT ![Len(reviews)].comments =
                                            Append(@, comments[posted + 1])]
          /\ posted' = posted + 1
          /\ UNCHANGED pc
       \/ /\ reviews' = [reviews EXCEPT ![Len(reviews)].public = TRUE]
          /\ pc' = "return"
          /\ UNCHANGED posted
    /\ UNCHANGED <<settings, handlervars, chat, batchvars, diffs, diff, files,
                   comments, total_comments, analysis, analyzed_ok, fnvars>>

\* for comment in comments: review_comments.create(**comment)
PostComment ==
    /\ pc = "post"
    /\ posted < Len(comments)
    /\ \/ /\ reviews' = [reviews EXCEPT ![Len(reviews)].comments =
                                            Append(@, comments[posted + 1])]
          /\ posted' = posted + 1
          /\ UNCHANGED pc
       \/ /\ pc' = "except"
          /\ UNCHANGED <<reviews, posted>>
    /\ UNCHANGED <<settings, handlervars, chat, batchvars, diffs, diff, files,
                   comments, total_comments, analysis, analyzed_ok, fnvars>>

\* review.update(public=True)
Publish ==
    /\ pc = "post"
    /\ posted = Len(comments)
    /\ \/ /\ reviews' = [reviews EXCEPT ![Len(reviews)].public = TRUE]
          /\ pc' = "return"
       \/ /\ pc' = "except"
          /\ UNCHANGED reviews
    /\ UNCHANGED <<settings, handlervars, chat, batchvars, diffs, diff, files,
                   comments, total_comments, posted, analysis, analyzed_ok, fnvars>>

\* The loop of process_review_requests putting an id on the list of failed
\* ids when do_review returned without having analyzed a file
ReturnReviewReportsUnanalyzed ==
    /\ pc = "return"
    /\ calls' = [calls EXCEPT ![Len(calls)].outcome = "returned"]
    /\ errors' = IF analyzed_ok THEN errors ELSE Append(errors, review_ids[idx])
    /\ idx' = idx + 1
    /\ pc' = "loop"
    /\ UNCHANGED <<settings, handlervars, chat, api_root, review_ids, reviewvars, fnvars>>

\* do_review returns: the for loop takes the next id
ReturnReview ==
    /\ pc = "return"
    /\ calls' = [calls EXCEPT ![Len(calls)].outcome = "returned"]
    /\ idx' = idx + 1
    /\ pc' = "loop"
    /\ UNCHANGED <<settings, handlervars, chat, api_root, review_ids, errors, reviewvars, fnvars>>

\* The try placed around the for loop instead of inside it: the first
\* failure ends the loop
ExceptReviewEndsLoop ==
    /\ pc = "except"
    /\ errors' = Append(errors, review_ids[idx])
    /\ calls' = [calls EXCEPT ![Len(calls)].outcome = "raised"]
    /\ idx' = Len(review_ids) + 1
    /\ pc' = "loop"
    /\ UNCHANGED <<settings, handlervars, chat, api_root, review_ids, reviewvars, fnvars>>

\* except: logger.exception(...); errors.append(review_id)
ExceptReview ==
    /\ pc = "except"
    /\ errors' = Append(errors, review_ids[idx])
    /\ calls' = [calls EXCEPT ![Len(calls)].outcome = "raised"]
    /\ idx' = idx + 1
    /\ pc' = "loop"
    /\ UNCHANGED <<settings, handlervars, chat, api_root, review_ids, reviewvars, fnvars>>

\* The completion message sent without looking at errors
NotifyIgnoringErrors ==
    /\ pc = "loop"
    /\ idx > Len(review_ids)
    /\ chat' = Append(chat, Msg("Codereview complete", <<>>))
    /\ pc' = "done"
    /\ UNCHANGED <<settings, handlervars, batchvars, reviewvars, fnvars>>

\* After the loop: the one completion message
Notify ==
    /\ pc = "loop"
    /\ idx > Len(review_ids)
    /\ chat' = Append(chat,
                      IF errors # <<>>
                      THEN Msg("Codereview complete, but I was unable to review",
                               CrList(errors))
                      ELSE Msg("Codereview complete", <<>>))
    /\ pc' = "done"
    /\ UNCHANGED <<settings, handlervars, batchvars, reviewvars, fnvars>>

Next ==
    \/ Codereview
    \/ GetRoot
    \/ StartReview
    \/ Resolve
    \/ SelectDiff
    \/ GetFiles
    \/ AnalyzeFile
    \/ Decide
    \/ PostComment
    \/ Publish
    \/ ReturnReview
    \/ ExceptReview
    \/ Notify

Spec == Init /\ [][Next]_vars

(***************************************************************************)
(* Function-level specifications: one call of _is_python or of _flake8 on  *)
(* an input drawn from a bounded set, the batch standing still.            *)
(***************************************************************************)

MaxPathLen == 5     \* characters of a destination path
MaxLines == 2       \* lines of one analyzer output
MaxRows == 3        \* rows in one chunk table
MaxStepLines == 1   \* lines of the analyzer output of the call followed step by step

BatchOff ==
    /\ settings = DefaultSettings
    /\ message = <<>>
    /\ reply = ""
    /\ scheduled = <<>>
    /\ chat = <<>>
    /\ pc = "off"
    /\ api_root = "none"
    /\ review_ids = <<>>
    /\ idx = 0
    /\ errors = <<>>
    /\ calls = <<>>
    /\ diffs = <<>>
    /\ diff = NoDiff
    /\ files = <<>>
    /\ comments = <<>>
    /\ total_comments = 0
    /\ posted = 0
    /\ reviews = <<>>
    /\ analysis = NoAnalysis
    /\ analyzed_ok = FALSE

PathChars == {"f", ".", "/", "p", "y", "P", "Y", "c"}

\* The file records _is_python is given: every path of the alphabet up to
\* MaxPathLen, a record without the attribute, and one whose path is None
InitIsPython ==
    /\ BatchOff
    /\ \/ \E k \in 0..MaxPathLen : \E path \in [1..k -> PathChars] :
             call_arg = DiffFile("str", path)
       \/ call_arg \in {DiffFile("missing", <<>>), DiffFile("none", <<>>)}
    /\ call_ret = [raised |-> FALSE, value |-> FALSE]
    /\ call_done = FALSE
    /\ Flake8Off

IsPythonCall ==
    /\ ~call_done
    /\ call_ret' = IsPython(call_arg)
    /\ call_done' = TRUE
    /\ UNCHANGED <<call_arg, fpc, tmpfiles, mainvars>>

NextIsPython == IsPythonCall

SpecIsPython == InitIsPython /\ [][NextIsPython]_vars

\* One line of analyzer output, described by how many of the location fields
\* path, row, col and the empty field after the last colon it has, by the text of
\* the row and col fields, and by the message after the first blank (none: no blank)
Desc(n, row, col, msg) == [n |-> n, row |-> row, col |-> col, msg |-> msg]

RECURSIVE JoinFields(_)
JoinFields(fields) ==
    IF Len(fields) = 1 THEN fields[1]
    ELSE fields[1] \o <<":">> \o JoinFields(Tail(fields))

LineOf(d) ==
    JoinFields(SubSeq(<<<<"f">>, d.row, d.col, <<>>>>, 1, d.n))
    \o (IF d.msg = <<>> THEN <<>> ELSE <<" ">> \o d.msg)

RECURSIVE OutputOf(_)
OutputOf(ds) ==
    IF ds = <<>> THEN <<>>
    ELSE LineOf(Head(ds)) \o <<"\n">> \o OutputOf(Tail(ds))

RowFields == {<<"1">>, <<"1", "2">>, <<"x">>}

ColFields == {<<"3">>, <<"x">>}

Msgs == {<<>>, MsgE, MsgW}

Descs ==
    {d \in [n : 1..4, row : RowFields, col : ColFields, msg : Msgs] :
        /\ d.n < 2 => d.row = <<"1">>
        /\ d.n < 3 => d.col = <<"3">>}

StrictCodeSets == {{}, {CodeE}, {CodeE, CodeW}}

\* Line 12 of the patched file is row 5 of the diff; line 1 is in no row
ParseChunks == <<Chunk(<<Row(5, 12)>>)>>

Flake8Arg(ds, chunks, strict_codes) ==
    [descs |-> ds,
     file |-> [id |-> 7, io_ok |-> TRUE, stdout |-> OutputOf(ds), chunks |-> chunks],
     strict_codes |-> strict_codes]

Flake8Call ==
    /\ ~call_done
    /\ call_ret' = Flake8(call_arg.file, call_arg.strict_codes)
    /\ call_done' = TRUE
    /\ UNCHANGED <<call_arg, fpc, tmpfiles, mainvars>>

InitFlake8 ==
    /\ BatchOff
    /\ \E k \in 0..MaxLines : \E ds \in [1..k -> Descs] : \E sc \in StrictCodeSets :
          call_arg = Flake8Arg(ds, ParseChunks, sc)
    /\ call_ret = Returned(<<>>)
    /\ call_done = FALSE
    /\ Flake8Off

NextFlake8 == Flake8Call

SpecFlake8 == InitFlake8 /\ [][NextFlake8]_vars

(***************************************************************************)
(* One _flake8 call step by step, with the temporary file it creates.      *)
(***************************************************************************)

\* The call ends with an exception
F8Raise(exc) ==
    /\ call_ret' = Raised(exc)
    /\ call_done' = TRUE
    /\ fpc' = "done"

\* Every analyzer output of at most MaxStepLines lines
InitTempFile ==
    /\ BatchOff
    /\ \E k \in 0..MaxStepLines : \E ds \in [1..k -> Descs] : \E sc \in StrictCodeSets :
          call_arg = Flake8Arg(ds, ParseChunks, sc)
    /\ call_ret = Returned(<<>>)
    /\ call_done = FALSE
    /\ fpc = "get_diff_data"
    /\ tmpfiles = 0

\* diff_data = file.get_diff_data(): a call to the server
F8GetDiffData ==
    /\ fpc = "get_diff_data"
    /\ \/ /\ fpc' = "open"
          /\ UNCHANGED <<call_ret, call_done>>
       \/ F8Raise("APIError")
    /\ UNCHANGED <<call_arg, tmpfiles, mainvars>>

\* with tempfile.NamedTemporaryFile(...) as tmp: the file is created, or the
\* call raises and there is no file
F8OpenTemp ==
    /\ fpc = "open"
    /\ \/ /\ tmpfiles' = tmpfiles + 1
          /\ fpc' = "write"
          /\ UNCHANGED <<call_ret, call_done>>
       \/ /\ F8Raise("OSError")
          /\ UNCHANGED tmpfiles
    /\ UNCHANGED <<call_arg, mainvars>>

\* The write step without the with statement: an exception leaves the function
\* and the file stays
F8WriteLeavesFile ==
    /\ fpc = "write"
    /\ \/ /\ fpc' = "run"
          /\ UNCHANGED <<call_ret, call_done>>
       \/ F8Raise("IOError")
    /\ UNCHANGED <<call_arg, tmpfiles, mainvars>>

\* tmp.write(file.get_patched_file().data); tmp.flush(): an exception leaves
\* the with block, which closes and so deletes the file
F8Write ==
    /\ fpc = "write"
    /\ \/ /\ fpc' = "run"
          /\ UNCHANGED <<call_ret, call_done, tmpfiles>>
       \/ /\ F8Raise("IOError")
          /\ tmpfiles' = tmpfiles - 1
    /\ UNCHANGED <<call_arg, mainvars>>

\* subprocess.Popen(...) and proc.communicate(), still inside the with block
F8Run ==
    /\ fpc = "run"
    /\ \/ /\ fpc' = "exit_with"
          /\ UNCHANGED <<call_ret, call_done, tmpfiles>>
       \/ /\ F8Raise("OSError")
          /\ tmpfiles' = tmpfiles - 1
    /\ UNCHANGED <<call_arg, mainvars>>

\* The end of the with block: the file is closed and deleted
F8ExitWith ==
    /\ fpc = "exit_with"
    /\ tmpfiles' = tmpfiles - 1
    /\ fpc' = "parse"
    /\ UNCHANGED <<call_arg, call_ret, call_done, mainvars>>

\* The loop over stdout.splitlines() and the return
F8Parse ==
    /\ fpc = "parse"
    /\ call_ret' = ParseOutput(SplitLines(call_arg.file.stdout), call_arg.file,
                               call_arg.strict_codes, <<>>)
    /\ call_done' = TRUE
    /\ fpc' = "done"
    /\ UNCHANGED <<call_arg, tmpfiles, mainvars>>

NextTempFile ==
    \/ F8GetDiffData
    \/ F8OpenTemp
    \/ F8Write
    \/ F8Run
    \/ F8ExitWith
    \/ F8Parse

SpecTempFile == InitTempFile /\ [][NextTempFile]_vars

\* The chunk table made of rows cut into chunks after the positions in cuts
RECURSIVE Chunked(_, _, _, _)
Chunked(rows, cuts, i, cur) ==
    IF i > Len(rows) THEN (IF cur = <<>> THEN <<>> ELSE <<Chunk(cur)>>)
    ELSE IF i \in cuts
         THEN <<Chunk(Append(cur, rows[i]))>> \o Chunked(rows, cuts, i + 1, <<>>)
         ELSE Chunked(rows, cuts, i + 1, Append(cur, rows[i]))

LineNos == 1..3

LineText(n) == CASE n = 1 -> <<"1">> [] n = 2 -> <<"2">> [] n = 3 -> <<"3">>

RowSet == {Row(r0, r4) : r0 \in LineNos, r4 \in LineNos}

\* One well-formed diagnostic at each line, against every chunk table: up to
\* MaxRows rows, cut into chunks in every way
InitLineMap ==
    /\ BatchOff
    /\ \E k \in 0..MaxRows : \E rows \in [1..k -> RowSet] :
          \E cuts \in SUBSET (1..(k - 1)) : \E n \in LineNos :
             call_arg = Flake8Arg(<<Desc(4, LineText(n), <<"3">>, MsgE)>>,
                                  Chunked(rows, cuts, 1, <<>>), {})
    /\ call_ret = Returned(<<>>)
    /\ call_done = FALSE
    /\ Flake8Off

SpecLineMap == InitLineMap /\ [][NextFlake8]_vars

(***************************************************************************)
(* The claims.                                                             *)
(***************************************************************************)

\* The ids of the do_review calls that raised, in call order
RECURSIVE RaisedIds(_)
RaisedIds(cs) ==
    IF cs = <<>> THEN <<>>
    ELSE IF Head(cs).outcome = "raised"
         THEN <<Head(cs).review_id>> \o RaisedIds(Tail(cs))
         ELSE RaisedIds(Tail(cs))

\* The messages process_review_requests sent: all but the handler's acknowledgement
Notifications == SelectSeq(chat, LAMBDA m : m.kind # "Ok, I'll get right on that")

CompletionKinds == {"Codereview complete", "Codereview complete, but I was unable to review"}

\* C1: do_review is called once for every id of the list, in list order, whichever
\* calls raise, and the final notification names, in order, exactly the ids of the
\* calls that raised; an id none of whose calls raised is not named.
C1_FailureIsolation ==
    /\ Len(calls) <= Len(review_ids)
    /\ \A k \in 1..Len(calls) : calls[k].review_id = review_ids[k]
    /\ (pc = "done" /\ api_root = "ok") =>
          /\ Len(calls) = Len(review_ids)
          /\ \A k \in 1..Len(calls) : calls[k].outcome \in {"returned", "raised"}
          /\ Notifications # <<>>
          /\ Notifications[Len(Notifications)].ids = CrList(RaisedIds(calls))
          /\ \A k \in 1..Len(calls) :
                (\A j \in 1..Len(calls) :
                    calls[j].review_id = calls[k].review_id => calls[j].outcome = "returned")
                => \A n \in 1..Len(Notifications[Len(Notifications)].ids) :
                      Notifications[Len(Notifications)].ids[n] # <<"cr", calls[k].review_id>>

\* C1 witness: a batch of two ids whose first call raised and whose second
\* returned, ended with a notification naming the first id only
C1_Witness ==
    /\ pc = "done"
    /\ Len(calls) = 2
    /\ calls[1].outcome = "raised"
    /\ calls[2].outcome = "returned"
    /\ calls[1].review_id # calls[2].review_id
    /\ Notifications[Len(Notifications)].ids = <<<<"cr", calls[1].review_id>>>>

\* C2: with API access obtained, no notification is sent while an id is still to
\* be processed, exactly one has been sent when the run is over, and it is the
\* plain success message exactly when no call raised.
C2_OneNotificationAfterLoop ==
    api_root = "ok" =>
        /\ Len(Notifications) <= 1
        /\ pc = "done" => Len(Notifications) = 1
        /\ Len(Notifications) = 1 =>
              /\ pc = "done"
              /\ Len(calls) = Len(review_ids)
              /\ \A k \in 1..Len(calls) : calls[k].outcome \in {"returned", "raised"}
              /\ Notifications[1].kind \in CompletionKinds
              /\ Notifications[1].kind = "Codereview complete" <=> RaisedIds(calls) = <<>>

\* C2 witness: a finished batch of two ids with a failure and its one notification
C2_Witness ==
    /\ api_root = "ok"
    /\ pc = "done"
    /\ Len(calls) = 2
    /\ RaisedIds(calls) # <<>>
    /\ Len(Notifications) = 1
    /\ Notifications[1].kind = "Codereview complete, but I was unable to review"

\* C3: when api.get_root() raises, the run is over with exactly one notification,
\* the "can't access reviewboard" one, and do_review was called for no id.
C3_NoAccessAborts ==
    api_root = "raised" =>
        /\ pc = "done"
        /\ calls = <<>>
        /\ Len(Notifications) = 1
        /\ Notifications[1].kind = "I can't access reviewboard"

\* C3 witness: access failed for a batch of two ids
C3_Witness ==
    /\ api_root = "raised"
    /\ Len(review_ids) = 2
    /\ Len(Notifications) = 1

C5_PassedIffNoFindings ==
    (/\ pc \in {"return", "post"}
     /\ reviews # <<>>
     /\ settings.limit_set => settings.limit >= 0) =>
        (reviews[Len(reviews)].body_top.passed <=> total_comments = 0)

\* C6: with a comment limit set and more findings than the limit, the
\* review submitted carries exactly limit comments, the first limit findings were
\* kept, and its top line says 'Showing first' with the limit as the count.
C6_TruncatedToLimit ==
    (/\ pc = "return"
     /\ settings.limit_set
     /\ settings.limit >= 0
     /\ total_comments > settings.limit) =>
        /\ Len(reviews) = 1
        /\ Len(reviews[1].comments) = settings.limit
        /\ reviews[1].comments = comments
        /\ reviews[1].body_top.extra = "Showing first"
        /\ reviews[1].body_top.shown = settings.limit

\* The reference line mapper: the rows of all chunks in order, and the row[0] of
\* the first row whose row[4] is the line; the line itself when there is none
RECURSIVE AllRows(_)
AllRows(chunks) ==
    IF chunks = <<>> THEN <<>>
    ELSE Head(chunks).lines \o AllRows(Tail(chunks))

MapLine(chunks, line) ==
    LET k == FirstMatch(AllRows(chunks), line, 1)
    IN  IF k = 0 THEN line ELSE AllRows(chunks)[k][0]

\* What the fields of a described line stand for
NumericField(f) == f \in {<<"1">>, <<"1", "2">>, <<"2">>, <<"3">>}

FieldValue(f) ==
    CASE f = <<"1">> -> 1 [] f = <<"2">> -> 2 [] f = <<"3">> -> 3
      [] f = <<"1", "2">> -> 12

DescCode(d) == IF d.msg = MsgE THEN CodeE ELSE IF d.msg = MsgW THEN CodeW ELSE <<>>

\* The line has the shape path:line:col: CODE message
WellFormed(d) == d.n = 4 /\ NumericField(d.row) /\ NumericField(d.col) /\ d.msg # <<>>

\* The line has a row and a col field and both are numbers
Parsed(d) == d.n >= 3 /\ NumericField(d.row) /\ NumericField(d.col)

ExpectedFinding(d, arg) ==
    [filediff_id |-> arg.file.id,
     first_line |-> MapLine(arg.file.chunks, FieldValue(d.row)),
     num_lines |-> 1,
     text |-> <<"Column", FieldValue(d.col), d.msg>>,
     issue_opened |-> DescCode(d) \in arg.strict_codes]

\* C7: for every chunk table and every reported line, the finding's first_line is
\* mapLine of the table and the line: the row[0] of the first matching row in scan
\* order, rows of later chunks changing nothing, and the line itself without a match.
C7_FirstLineIsMapLine ==
    call_done =>
        /\ ~call_ret.raised
        /\ Len(call_ret.errors) = 1
        /\ call_ret.errors[1].first_line =
              MapLine(call_arg.file.chunks, FieldValue(call_arg.descs[1].row))

\* C8: whatever other lines the output holds, also lines with fewer than three
\* location fields, _flake8 does not fail and every well-formed line yields its
\* Finding.
C8_MalformedLinesDroppedAlone ==
    call_done =>
        /\ ~call_ret.raised
        /\ \A k \in 1..Len(call_arg.descs) :
              WellFormed(call_arg.descs[k]) =>
                 \E j \in 1..Len(call_ret.errors) :
                    call_ret.errors[j] = ExpectedFinding(call_arg.descs[k], call_arg)

\* C9: each finding _flake8 returns has issue_opened true if and only if the
\* leading code of its diagnostic is in the strict-code set; with the empty set
\* no finding has it.
C9_IssueOpenedIffStrictCode ==
    (call_done /\ ~call_ret.raised) =>
        LET parsed == SelectSeq(call_arg.descs, Parsed)
        IN  /\ Len(call_ret.errors) = Len(parsed)
            /\ \A k \in 1..Len(parsed) :
                  call_ret.errors[k].issue_opened
                     <=> DescCode(parsed[k]) \in call_arg.strict_codes
            /\ call_arg.strict_codes = {} =>
                  \A k \in 1..Len(call_ret.errors) : ~call_ret.errors[k].issue_opened

\* C9 witness: one output gave a finding with a strict code and one without
C9_Witness ==
    /\ call_done
    /\ call_arg.strict_codes = {CodeE}
    /\ Len(call_ret.errors) = 2
    /\ call_ret.errors[1].issue_opened
    /\ ~call_ret.errors[2].issue_opened

\* The destination path has the extension .py in any case of the letters, the
\* extension being what os.path.splitext gives: the text from the last dot, when
\* a character other than a dot precedes it in the file name
HasPyExtension(f) ==
    /\ f.kind = "str"
    /\ LET p == f.dest_file
           n == Len(p)
       IN  /\ n >= 4
           /\ p[n - 2] = "."
           /\ p[n - 1] \in {"p", "P"}
           /\ p[n] \in {"y", "Y"}
           /\ \E k \in 1..(n - 3) :
                 /\ p[k] # "."
                 /\ \A j \in k..(n - 3) : p[j] # "/"

\* C10: _is_python never raises, and returns true exactly for the file records
\* whose destination path has the extension .py, compared without regard to
\* case; a record without a readable path gives false.
C10_IsPythonByExtension ==
    call_done =>
        /\ ~call_ret.raised
        /\ call_ret.value <=> HasPyExtension(call_arg)

\* C10 witness: f.PY was found eligible
C10_Witness ==
    /\ call_done
    /\ call_arg = DiffFile("str", <<"f", ".", "P", "Y">>)
    /\ call_ret.value

\* s with d put in at position p
InsertAt(s, d, p) == SubSeq(s, 1, p - 1) \o <<d>> \o SubSeq(s, p, Len(s))

\* Two well-formed diagnostics on the same line of the file, alone or with one
\* more output line of any shape before, between or after them
InitDuplicates ==
    /\ BatchOff
    /\ \E d1 \in Descs : \E d2 \in Descs : \E sc \in StrictCodeSets :
          /\ WellFormed(d1) /\ WellFormed(d2) /\ d1.row = d2.row
          /\ \/ call_arg = Flake8Arg(<<d1, d2>>, ParseChunks, sc)
             \/ \E d3 \in Descs : \E p \in 1..3 :
                   call_arg = Flake8Arg(InsertAt(<<d1, d2>>, d3, p), ParseChunks, sc)
    /\ call_ret = Returned(<<>>)
    /\ call_done = FALSE
    /\ Flake8Off

SpecDuplicates == InitDuplicates /\ [][NextFlake8]_vars

\* C11: _flake8 returns one Finding for each diagnostic line of the output, in
\* output order, two lines that report the same line of the file giving two
\* Findings with the same first_line, whatever else the output holds.
C11_OneFindingPerDiagnostic ==
    call_done =>
        LET parsed == SelectSeq(call_arg.descs, Parsed)
        IN  /\ ~call_ret.raised
            /\ Len(call_ret.errors) = Len(parsed)
            /\ \A k \in 1..Len(parsed) :
                  call_ret.errors[k] = ExpectedFinding(parsed[k], call_arg)

\* The words of the model's command texts that name a review, and the id each names
IsReviewRef(a) ==
    a \in {Arg("cr", <<"1">>), Arg("CR", <<"2">>), Arg("https://host/r/", <<"1">>)}

RefId(a) == IF a = Arg("CR", <<"2">>) THEN 2 ELSE 1

\* C12: when no word of the command text names a review, the handler returns the
\* failure text as its reply, sends nothing to the channel, schedules nothing and
\* does not raise ResponseNotReady; and after such a reply nothing was or will be
\* sent, scheduled or called.
C12_NoIdentifierNoSchedule ==
    /\ [](reply = "You must tell me the reivew" =>
             /\ pc = "done"
             /\ chat = <<>>
             /\ scheduled = <<>>
             /\ api_root = "none"
             /\ calls = <<>>)
    /\ [][(pc = "idle" /\ \A k \in 1..Len(message) : ~IsReviewRef(message[k])) =>
             /\ reply' = "You must tell me the reivew"
             /\ chat' = chat
             /\ scheduled' = scheduled
             /\ pc' = "done"]_vars

\* C12 witness: the handler answered a command without a review id: nothing
\* sent, nothing scheduled
C12_Witness ==
    /\ reply = "You must tell me the reivew"
    /\ message = <<>>
    /\ chat = <<>>
    /\ scheduled = <<>>
    /\ pc = "done"

\* do_review has ended, or is about to end with an exception, after a create of
\* a diff comment failed: a review exists and not all comments were attached
CommentCreateFailed ==
    /\ pc \in {"except", "loop", "done"}
    /\ reviews # <<>>
    /\ posted < Len(comments)

\* C13 as stated: when the create of a diff comment fails after k comments were
\* attached, the review is published with those k comments.
C13_FailedCommentStillPublishes ==
    CommentCreateFailed =>
        /\ reviews[1].public
        /\ reviews[1].comments = SubSeq(comments, 1, posted)

\* C13, amended: when the create of a diff comment fails after k comments were
\* attached, do_review raises without publishing: the one review keeps its k
\* comments and stays a draft, and the id is put on the list of failed ids.
C13_FailedCommentLeavesDraft ==
    CommentCreateFailed =>
        /\ Len(reviews) = 1
        /\ ~reviews[1].public
        /\ reviews[1].comments = SubSeq(comments, 1, posted)
        /\ pc # "except" =>
              /\ calls[Len(calls)].outcome = "raised"
              /\ errors # <<>>
              /\ errors[Len(errors)] = calls[Len(calls)].review_id

\* C13 witness: the batch is over, the second of two comments could not be
\* created and the review is a draft with one comment
C13_Witness ==
    /\ pc = "done"
    /\ CommentCreateFailed
    /\ posted = 1
    /\ Len(comments) = 2
    /\ ~reviews[1].public
    /\ Len(reviews[1].comments) = 1

\* C14: one do_review call creates at most one review; a 'not passed' review is
\* created as a draft without comments, then receives the comments one at a time
\* and in order while it is a draft, then is published once, all comments
\* attached; a published review is not touched again, and a call that returns
\* after flagging has published its review with all the comments.
C14_WriteBackOrder ==
    /\ [](Len(reviews) <= 1)
    /\ []((pc = "return" /\ reviews # <<>> /\ ~reviews[1].body_top.passed) =>
             /\ reviews[1].public
             /\ reviews[1].comments = comments)
    /\ [][reviews' # reviews =>
             \/ /\ pc = "loop"
                /\ reviews' = <<>>
             \/ /\ reviews = <<>>
                /\ Len(reviews') = 1
                /\ reviews'[1].comments = <<>>
                /\ ~reviews'[1].body_top.passed => ~reviews'[1].public
             \/ /\ Len(reviews) = 1
                /\ ~reviews[1].body_top.passed
                /\ ~reviews[1].public
                /\ Len(reviews[1].comments) < Len(comments)
                /\ reviews' = [reviews EXCEPT ![1].comments =
                                  Append(@, comments[Len(@) + 1])]
             \/ /\ Len(reviews) = 1
                /\ ~reviews[1].body_top.passed
                /\ ~reviews[1].public
                /\ reviews[1].comments = comments
                /\ reviews' = [reviews EXCEPT ![1].public = TRUE]]_vars

\* C14 witness: a 'not passed' review with two comments has been published and
\* do_review is returning
C14_Witness ==
    /\ pc = "return"
    /\ Len(reviews) = 1
    /\ ~reviews[1].body_top.passed
    /\ reviews[1].public
    /\ Len(reviews[1].comments) = 2
    /\ posted = 2

\* C15: each step of do_review's loop over the files leaves the loop running and
\* keeps the findings collected so far; for an eligible file _flake8 is called,
\* and the findings grow by nothing when it raised and by the whole list it
\* returned otherwise; a file that is not eligible adds nothing.
C15_FileFailureIsolated ==
    [][(pc = "analyze" /\ files # <<>>) =>
          /\ pc' = "analyze"
          /\ files' = Tail(files)
          /\ IF HasPyExtension(Head(files))
             THEN /\ analysis'.called
                  /\ analysis'.id = Head(files).id
                  /\ analysis'.raised => comments' = comments
                  /\ ~analysis'.raised => comments' = comments \o analysis'.errors
             ELSE /\ comments' = comments
                  /\ analysis' = analysis]_vars

\* C15 witness: the analysis of the second file raised, and do_review returns
\* after publishing a review with the findings of the first file
C15_Witness ==
    /\ pc = "return"
    /\ analysis.called
    /\ analysis.raised
    /\ analysis.id.index = 2
    /\ reviews # <<>>
    /\ reviews[1].public
    /\ reviews[1].comments # <<>>
    /\ \A k \in 1..Len(reviews[1].comments) :
          reviews[1].comments[k].filediff_id.index = 1

IsPrefix(p, q) == Len(p) <= Len(q) /\ p = SubSeq(q, 1, Len(p))

\* The findings are in the order of the files in the diff's list, and those of
\* one file in the order of the analyzer's output: E1 on the first line of the
\* output, W2 on the second
InDiffOrder(cs) ==
    \A a, b \in 1..Len(cs) :
        a < b =>
           /\ cs[a].filediff_id.index <= cs[b].filediff_id.index
           /\ cs[a].filediff_id.index = cs[b].filediff_id.index =>
                 /\ cs[a].text[3] = MsgE
                 /\ cs[b].text[3] = MsgW

\* C16: the findings are collected file after file in the order of the diff's
\* list, each file's findings appended in the order _flake8 returned them; the
\* cap keeps a prefix of that sequence; and the comments of the review are
\* created in that order, each a prefix of the kept sequence.
C16_CommentsInDiffOrder ==
    /\ [](InDiffOrder(comments))
    /\ [](reviews # <<>> => IsPrefix(reviews[1].comments, comments))
    /\ [][(pc = "analyze" /\ files # <<>>) =>
             /\ IsPrefix(comments, comments')
             /\ \A k \in (Len(comments) + 1)..Len(comments') :
                   /\ comments'[k].filediff_id = Head(files).id
                   /\ comments'[k] = analysis'.errors[k - Len(comments)]]_vars
    /\ [][(pc = "analyze" /\ files = <<>>) => IsPrefix(comments', comments)]_vars

\* C16 witness: three findings, one of the first file and two of the second, cut
\* to two, were created as the comments of the published review in that order
C16_Witness ==
    /\ pc = "return"
    /\ total_comments = 3
    /\ Len(reviews) = 1
    /\ reviews[1].public
    /\ Len(reviews[1].comments) = 2
    /\ reviews[1].comments[1].filediff_id.index = 1
    /\ reviews[1].comments[2].filediff_id.index = 2
    /\ reviews[1].comments[2].text[3] = MsgE

\* d is the diff of ds with the highest revision number
IsLatestOf(d, ds) ==
    /\ \E k \in 1..Len(ds) : ds[k] = d
    /\ \A k \in 1..Len(ds) : ds[k].revision <= d.revision

\* C17: from a list of diffs that is not empty, in whatever order the server
\* returned it, do_review selects the diff with the highest revision number, and
\* every file it lists, analyzes or comments on is a file of that diff.
C17_LatestRevisionOnly ==
    /\ [][(pc = "select" /\ diffs # <<>>) =>
             /\ pc' = "files"
             /\ IsLatestOf(diff', diffs)]_vars
    /\ [](pc = "files" => IsLatestOf(diff, diffs))
    /\ [](/\ \A k \in 1..Len(files) : files[k].id.revision = diff.revision
          /\ analysis.called => analysis.id.revision = diff.revision
          /\ \A k \in 1..Len(comments) :
                comments[k].filediff_id.revision = diff.revision
          /\ \A r \in 1..Len(reviews) : \A k \in 1..Len(reviews[r].comments) :
                reviews[r].comments[k].filediff_id.revision = diff.revision)

\* C17 witness: the server listed revision 2 before revision 1 and do_review
\* selected revision 2
C17_Witness ==
    /\ pc = "files"
    /\ diffs = <<[revision |-> 2], [revision |-> 1]>>
    /\ diff = [revision |-> 2]

\* The ids the words of a command text name, in the order of the words
ExpectedIds(args) ==
    LET refs == SelectSeq(args, IsReviewRef)
    IN  [k \in 1..Len(refs) |-> RefId(refs[k])]

\* C18: when a word of the command text names a review, the handler sends the
\* acknowledgement, schedules one call with all the ids named, in order, and
\* raises ResponseNotReady; until the handler has ended nothing was sent and no
\* server call was made, the scheduled call runs once with those ids, and in the
\* channel the acknowledgement comes first and once.
C18_AckThenSchedule ==
    /\ [][(pc = "idle" /\ \E k \in 1..Len(message) : IsReviewRef(message[k])) =>
             /\ chat' = <<Msg("Ok, I'll get right on that", <<>>)>>
             /\ scheduled' = <<ExpectedIds(message)>>
             /\ reply' = "ResponseNotReady"
             /\ pc' = "scheduled"
             /\ api_root' = "none"
             /\ calls' = <<>>]_vars
    /\ [][pc = "scheduled" =>
             /\ review_ids' = Head(scheduled)
             /\ scheduled' = <<>>]_vars
    /\ [](pc = "idle" =>
             /\ chat = <<>>
             /\ scheduled = <<>>
             /\ api_root = "none"
             /\ calls = <<>>)
    /\ [](\A k \in 1..Len(chat) :
             chat[k].kind = "Ok, I'll get right on that" <=> k = 1)

\* C18 witness: the command named reviews 1 and 2; the acknowledgement was
\* sent, the scheduled call ran with both ids and sent the completion message
C18_Witness ==
    /\ pc = "done"
    /\ reply = "ResponseNotReady"
    /\ review_ids = <<1, 2>>
    /\ scheduled = <<>>
    /\ Len(chat) = 2
    /\ chat[1].kind = "Ok, I'll get right on that"
    /\ chat[2].kind \in CompletionKinds

\* C19: at most one temporary file exists at any time, it exists only between
\* its creation and the end of the with block, and when the call has ended,
\* returning or raising at whichever step, no temporary file is left; the
\* output is parsed after the file is gone.
C19_TempFileRemoved ==
    /\ tmpfiles \in {0, 1}
    /\ tmpfiles = 1 => fpc \in {"write", "run", "exit_with"}
    /\ fpc \in {"parse", "done"} => tmpfiles = 0
    /\ call_done => tmpfiles = 0

\* C19 witness: writing the patched file into the temporary file failed, the
\* call has raised and the file is gone
C19_Witness ==
    /\ call_done
    /\ fpc = "done"
    /\ call_ret.raised
    /\ call_ret.exc = "IOError"
    /\ tmpfiles = 0

\* The review of a request that passed: published, no ship-it, no comments
ThePassedReview ==
    [body_top |-> [passed |-> TRUE, extra |-> "", shown |-> 0],
     public |-> TRUE, ship_it |-> FALSE, comments |-> <<>>]

\* C20: a do_review call in which no _flake8 call returned, there being no
\* eligible file or every analysis having raised, and whose write-back succeeds
\* returns after submitting the same published 'passed' review as a call whose
\* files were analyzed and gave no finding; the call counts as returned, the
\* list of failed ids holds the ids of the calls that raised and no other, and
\* the completion message names that list.
C20_PassedWithoutAnalysis ==
    /\ (pc = "return" /\ ~analyzed_ok) =>
          /\ total_comments = 0
          /\ reviews = <<ThePassedReview>>
    /\ (pc = "return" /\ analyzed_ok /\ total_comments = 0) =>
          reviews = <<ThePassedReview>>
    /\ (pc \in {"loop", "done"} /\ reviews = <<ThePassedReview>>) =>
          calls[Len(calls)].outcome = "returned"
    /\ pc \in {"loop", "done"} => errors = RaisedIds(calls)
    /\ (pc = "done" /\ api_root = "ok") =>
          chat[Len(chat)] =
             IF RaisedIds(calls) = <<>>
             THEN Msg("Codereview complete", <<>>)
             ELSE Msg("Codereview complete, but I was unable to review",
                      CrList(RaisedIds(calls)))

\* C20 witness: the analysis of the only eligible file of the last request
\* raised, the request got the published 'passed' review, and the completion
\* message names no failed id
C20_Witness ==
    /\ pc = "done"
    /\ analysis.called
    /\ analysis.raised
    /\ ~analyzed_ok
    /\ reviews = <<ThePassedReview>>
    /\ chat[Len(chat)] = Msg("Codereview complete", <<>>)

====
